---------------------------- MODULE Spec2Model ----------------------------
(***************************************************************************)
(* Word-count service: the HTTP orchestration pipeline of                  *)
(* cloud/backend/app.py and the Hadoop-streaming scripts                   *)
(* cloud/mapreduce/mapper.py and cloud/mapreduce/reducer.py.               *)
(*                                                                         *)
(* Text is a sequence of one-character strings.  Files, pipes and process  *)
(* output are such sequences, newline characters included.                 *)
(*                                                                         *)
(* Spec      the service as app.py starts it: one uvicorn worker, whose    *)
(*           handler has no await and so serves one request at a time.     *)
(* SpecConc  the service run with two workers sharing the local directory  *)
(*           and the cluster; their commands interleave freely.            *)
(* SpecMR    mapper.py, the shuffle and reducer.py on any short text.      *)
(* SpecCol   the output collector (app.py lines 87-108) on any part-file.  *)
(* SpecRed   reducer.py line by line on any stdin, malformed lines and     *)
(*           unsorted input included.                                      *)
(* SpecMap   mapper.py on any line, underscores included.                  *)
(* SpecParts the service on a cluster that runs two reduce tasks per job.  *)
(* SpecStatus GET /api/status with a probe that exits, cannot be started   *)
(*           or runs into its timeout.                                     *)
(***************************************************************************)
EXTENDS Integers, Sequences, FiniteSets, TLC

(***************************************************************************)
(* Bounds of the model.                                                    *)
(***************************************************************************)
\* Total number of POST /api/wordcount requests the service handles.
MaxRequests == 2
\* Longest input text fed to the mapper/reducer scripts.
MaxTextLen == 5

(***************************************************************************)
(* Characters and Python string primitives.                                *)
(***************************************************************************)
Digits == <<"0", "1", "2", "3", "4", "5", "6", "7", "8", "9">>

IsDigit(c) == \E i \in 1..10 : Digits[i] = c

DigitVal(c) == (CHOOSE i \in 1..10 : Digits[i] = c) - 1

\* str.isspace for the characters of the model
IsSpace(c) == c \in {" ", "\t", "\n"}

\* the class \w of the re module
IsWordChar(c) == IsDigit(c) \/ c \in {"a", "b", "A", "B", "_"}

\* code points, for the ordering of keys
Ord(c) ==
    CASE c = "\t" -> 9
      [] c = "\n" -> 10
      [] c = " " -> 32
      [] c = "!" -> 33
      [] c = "+" -> 43
      [] c = "," -> 44
      [] c = "-" -> 45
      [] IsDigit(c) -> 48 + DigitVal(c)
      [] c = "A" -> 65
      [] c = "B" -> 66
      [] c = "_" -> 95
      [] c = "a" -> 97
      [] c = "b" -> 98
      [] OTHER -> 120

\* str.lower, one character
LowerChar(c) == IF c = "A" THEN "a" ELSE IF c = "B" THEN "b" ELSE c

\* str.lower
Lower(s) == [i \in 1..Len(s) |-> LowerChar(s[i])]

\* re.sub(r"[^\w\s]", " ", s)
SubPunct(s) ==
    [i \in 1..Len(s) |-> IF IsWordChar(s[i]) \/ IsSpace(s[i]) THEN s[i] ELSE " "]

RECURSIVE LStrip(_)
LStrip(s) ==
    IF s # <<>> /\ IsSpace(Head(s)) THEN LStrip(Tail(s)) ELSE s

RECURSIVE RStrip(_)
RStrip(s) ==
    IF s # <<>> /\ IsSpace(s[Len(s)]) THEN RStrip(SubSeq(s, 1, Len(s) - 1)) ELSE s

\* str.strip()
Strip(s) == RStrip(LStrip(s))

\* index of the first occurrence of character c in s, 0 when absent
FirstIndex(s, c) ==
    IF \E i \in 1..Len(s) : s[i] = c
    THEN CHOOSE i \in 1..Len(s) : s[i] = c /\ \A j \in 1..(i - 1) : s[j] # c
    ELSE 0

\* str.split(sep) for a one-character separator: always at least one field
RECURSIVE SplitOn(_, _)
SplitOn(s, sep) ==
    LET i == FirstIndex(s, sep)
    IN  IF i = 0 THEN <<s>>
        ELSE <<SubSeq(s, 1, i - 1)>> \o SplitOn(SubSeq(s, i + 1, Len(s)), sep)

\* length of the leading run of non-space characters of s
RECURSIVE WordLen(_)
WordLen(s) ==
    IF s = <<>> \/ IsSpace(Head(s)) THEN 0 ELSE 1 + WordLen(Tail(s))

\* str.split(): fields separated by runs of whitespace, no empty field
RECURSIVE SplitWs(_)
SplitWs(s) ==
    LET t == LStrip(s)
        n == WordLen(t)
    IN  IF t = <<>> THEN <<>>
        ELSE <<SubSeq(t, 1, n)>> \o SplitWs(SubSeq(t, n + 1, Len(t)))

\* str(n) of a non-negative integer
RECURSIVE NatStr(_)
NatStr(n) ==
    IF n < 10 THEN <<Digits[n + 1]>> ELSE NatStr(n \div 10) \o <<Digits[(n % 10) + 1]>>

\* str(n) of an integer
IntStr(n) == IF n < 0 THEN <<"-">> \o NatStr(0 - n) ELSE NatStr(n)

RECURSIVE DigitsVal(_, _)
DigitsVal(s, acc) ==
    IF s = <<>> THEN acc ELSE DigitsVal(Tail(s), 10 * acc + DigitVal(Head(s)))

\* int(s): surrounding whitespace and one sign are accepted, then decimal
\* digits, single underscores allowed between digits; ok = FALSE is ValueError
ParseInt(s) ==
    LET t == Strip(s)
        u == IF t # <<>> /\ Head(t) \in {"+", "-"} THEN Tail(t) ELSE t
        d == SelectSeq(u, LAMBDA c : c # "_")
        wf == /\ u # <<>>
              /\ \A i \in 1..Len(u) : IsDigit(u[i]) \/ u[i] = "_"
              /\ \A i \in 1..Len(u) :
                    u[i] = "_" => i > 1 /\ i < Len(u) /\ IsDigit(u[i - 1]) /\ IsDigit(u[i + 1])
    IN  IF wf
        THEN [ok |-> TRUE,
              val |-> IF Head(t) = "-" THEN 0 - DigitsVal(d, 0) ELSE DigitsVal(d, 0)]
        ELSE [ok |-> FALSE, val |-> 0]

\* "{}\t{}".format(word, count) followed by print's newline
FormatLine(word, count) == word \o <<"\t">> \o IntStr(count) \o <<"\n">>

\* the lines a script reads from a stream (for line in sys.stdin); the
\* newline is dropped here, every reader strips the line first
StdinLines(s) == SplitOn(s, "\n")

(***************************************************************************)
(* Python dict in insertion order: a sequence of <<key, value>> pairs.     *)
(***************************************************************************)
DictHas(d, k) == \E i \in 1..Len(d) : d[i][1] = k

DictGet(d, k, default) ==
    IF DictHas(d, k) THEN d[CHOOSE i \in 1..Len(d) : d[i][1] = k][2] ELSE default

DictSet(d, k, v) ==
    IF DictHas(d, k)
    THEN [i \in 1..Len(d) |-> IF d[i][1] = k THEN <<k, v>> ELSE d[i]]
    ELSE Append(d, <<k, v>>)

DictKeys(d) == {d[i][1] : i \in 1..Len(d)}

\* sum(d.values())
RECURSIVE SumValues(_)
SumValues(d) == IF d = <<>> THEN 0 ELSE Head(d)[2] + SumValues(Tail(d))


(***************************************************************************)
(* mapper.py                                                               *)
(***************************************************************************)
\* mapper(text): the list of (word, 1) pairs of one line
mapper(text) ==
    LET words == SplitWs(SubPunct(Lower(text)))
        kept == SelectSeq(words, LAMBDA w : w # <<>>)
    IN  [i \in 1..Len(kept) |-> <<kept[i], 1>>]

RECURSIVE PrintPairs(_)
PrintPairs(pairs) ==
    IF pairs = <<>> THEN <<>>
    ELSE FormatLine(Head(pairs)[1], Head(pairs)[2]) \o PrintPairs(Tail(pairs))

\* the stdin loop of mapper.py over the lines not yet read
RECURSIVE MapperLoop(_)
MapperLoop(lines) ==
    IF lines = <<>> THEN <<>>
    ELSE LET line == Strip(Head(lines))
         IN  (IF line # <<>> THEN PrintPairs(mapper(line)) ELSE <<>>)
                \o MapperLoop(Tail(lines))

\* mapper.py as a process: stdin to stdout
MapperScript(stdin) == MapperLoop(StdinLines(stdin))

(***************************************************************************)
(* reducer.py                                                              *)
(***************************************************************************)
\* reducer(word_count_list): the dict of summed counts
RECURSIVE reducer(_)
reducer(word_count_list) ==
    IF word_count_list = <<>> THEN <<>>
    ELSE LET n == Len(word_count_list)
             counts == reducer(SubSeq(word_count_list, 1, n - 1))
             word == word_count_list[n][1]
             count == word_count_list[n][2]
         IN  DictSet(counts, word, DictGet(counts, word, 0) + count)

\* current_word = None
NoWord == <<"None">>

\* the try block of the loop: the unpacking of line.split('\t') and int(count)
ParseRecord(line) ==
    LET fields == SplitOn(Strip(line), "\t")
        n == IF Len(fields) = 2 THEN ParseInt(fields[2]) ELSE [ok |-> FALSE, val |-> 0]
    IN  [ok |-> Len(fields) = 2 /\ n.ok,
         word |-> IF Len(fields) = 2 THEN fields[1] ELSE <<>>,
         count |-> n.val]

\* the statement after the loop: the last group is printed
ReducerFlush(current_word, current_count) ==
    IF current_word # NoWord THEN FormatLine(current_word, current_count) ELSE <<>>

\* the stdin loop of reducer.py over the lines not yet read, then the flush
RECURSIVE ReducerLoop(_, _, _)
ReducerLoop(lines, current_word, current_count) ==
    IF lines = <<>> THEN ReducerFlush(current_word, current_count)
    ELSE LET r == ParseRecord(Head(lines))
         IN  IF ~r.ok THEN ReducerLoop(Tail(lines), current_word, current_count)
             ELSE IF r.word = current_word
             THEN ReducerLoop(Tail(lines), current_word, current_count + r.count)
             ELSE ReducerFlush(current_word, current_count)
                    \o ReducerLoop(Tail(lines), r.word, r.count)

\* reducer.py as a process: stdin to stdout
ReducerScript(stdin) == ReducerLoop(StdinLines(stdin), NoWord, 0)

(***************************************************************************)
(* The streaming engine between the two scripts: the map output is split   *)
(* into records, keyed by the text before the first tab, and sorted by     *)
(* key (byte order) before it reaches the reducer.                         *)
(***************************************************************************)
KeyOf(line) ==
    LET i == FirstIndex(line, "\t") IN IF i = 0 THEN line ELSE SubSeq(line, 1, i - 1)

RECURSIVE KeyLess(_, _)
KeyLess(a, b) ==
    IF b = <<>> THEN FALSE
    ELSE IF a = <<>> THEN TRUE
    ELSE IF Ord(Head(a)) # Ord(Head(b)) THEN Ord(Head(a)) < Ord(Head(b))
    ELSE KeyLess(Tail(a), Tail(b))

\* stable insertion of one record into a sorted sequence of records
RECURSIVE InsertSorted(_, _)
InsertSorted(sorted, line) ==
    IF sorted = <<>> THEN <<line>>
    ELSE IF KeyLess(KeyOf(line), KeyOf(Head(sorted)))
    THEN <<line>> \o sorted
    ELSE <<Head(sorted)>> \o InsertSorted(Tail(sorted), line)

RECURSIVE SortRecords(_)
SortRecords(lines) ==
    IF lines = <<>> THEN <<>>
    ELSE InsertSorted(SortRecords(SubSeq(lines, 1, Len(lines) - 1)), lines[Len(lines)])

RECURSIVE JoinLines(_)
JoinLines(lines) ==
    IF lines = <<>> THEN <<>> ELSE Head(lines) \o <<"\n">> \o JoinLines(Tail(lines))

\* the records of a stream: its lines, the empty remainder after the last
\* newline left out
Records(stream) == SelectSeq(StdinLines(stream), LAMBDA l : l # <<>>)

\* the shuffle: map output sorted by key, preceded by a faulty variant that
\* keeps the order of arrival
SortByKey_Arrival(stream) == JoinLines(Records(stream))

SortByKey(stream) == JoinLines(SortRecords(Records(stream)))


(***************************************************************************)
(* The streaming job as the cluster runs it: the map output is partitioned *)
(* by key among the reduce tasks, each partition is sorted and reduced on  *)
(* its own and written as one part-file (part-00000 is the first).         *)
(***************************************************************************)
RECURSIVE KeyHash(_)
KeyHash(key) == IF key = <<>> THEN 0 ELSE Ord(Head(key)) + KeyHash(Tail(key))

PartitionOf(stream, i, n) ==
    JoinLines(SelectSeq(Records(stream), LAMBDA l : KeyHash(KeyOf(l)) % n = i))

\* the part-files of the output directory for one input file
EngineOutput(input, n) ==
    [i \in 1..n |-> ReducerScript(SortByKey(PartitionOf(MapperScript(input), i - 1, n)))]

(***************************************************************************)
(* app.py: POST /api/wordcount                                             *)
(***************************************************************************)
\* lines 87-93: the dict built from the stdout of the read command; ok =
\* FALSE is the ValueError of int(count); preceded by a faulty variant that
\* goes past a count that is no integer, as the reducer does
RECURSIVE CollectLines_SkipBad(_, _)
CollectLines_SkipBad(lines, word_counts) ==
    IF lines = <<>> THEN [ok |-> TRUE, word_counts |-> word_counts]
    ELSE LET line == Head(lines)
             parts == SplitOn(line, "\t")
         IN  IF line # <<>> /\ Len(parts) = 2 /\ ParseInt(parts[2]).ok
             THEN CollectLines_SkipBad(Tail(lines),
                                       DictSet(word_counts, parts[1], ParseInt(parts[2]).val))
             ELSE CollectLines_SkipBad(Tail(lines), word_counts)

RECURSIVE CollectLines(_, _)
CollectLines(lines, word_counts) ==
    IF lines = <<>> THEN [ok |-> TRUE, word_counts |-> word_counts]
    ELSE LET line == Head(lines)
             parts == SplitOn(line, "\t")
         IN  IF line # <<>> /\ Len(parts) = 2
             THEN LET n == ParseInt(parts[2])
                  IN  IF n.ok
                      THEN CollectLines(Tail(lines), DictSet(word_counts, parts[1], n.val))
                      ELSE [ok |-> FALSE, word_counts |-> word_counts]
             ELSE CollectLines(Tail(lines), word_counts)

\* line 95, preceded by a faulty variant that counts the entries
TotalWords_Count(word_counts) == Len(word_counts)

TotalWords(word_counts) == SumValues(word_counts)

\* line 96
UniqueWords(word_counts) == Len(word_counts)

\* lines 87-96 on the text read from part-00000
CollectOutput(out) ==
    LET c == CollectLines(SplitOn(Strip(out), "\n"), <<>>)
    IN  [ok |-> c.ok,
         word_counts |-> c.word_counts,
         total_words |-> TotalWords(c.word_counts),
         unique_words |-> UniqueWords(c.word_counts)]


(***************************************************************************)
(* State.  Each worker of the service handles one request at a time; the   *)
(* workers share the local directory, the namenode container and HDFS.     *)
(***************************************************************************)
VARIABLES
    pc,            \* worker -> position in wordcount()
    text,          \* worker -> request.text
    job_id,        \* worker -> job_id, NoJob before line 50
    cmds,          \* worker -> the file and cluster commands issued, in order
    failed,        \* worker -> the steps that raised or exited non-zero
    jobProc,       \* worker -> what the streaming job reported (exit code, stderr, stdout)
    stdout,        \* worker -> result.stdout of the read command
    collected,     \* worker -> word_counts, total_words, unique_words (lines 87-96)
    resp,          \* worker -> the HTTP response
    overlap,       \* worker -> another request ran with the same job_id meanwhile
    nreq,          \* requests received so far
    workers,       \* the worker processes the service is deployed with
    reduces,       \* the number of reduce tasks the cluster runs per job
    localFs,       \* local file name -> content
    containerTmp,  \* file name under namenode:/tmp -> content
    hdfsInputDir,  \* /input exists in HDFS
    hdfsInput,     \* file name under /input -> content
    hdfsOutput,    \* directory name under /output -> its part-files
    mrStage,       \* the streaming job on its own: stage reached
    mrText,        \*   the input text
    mrMapOut,      \*   stdout of mapper.py
    mrSorted,      \*   the shuffled map output
    mrRedOut,      \*   stdout of reducer.py
    mrCounts,      \*   reducer(mapper(text)), computed in-process
    colStage,      \* the output collector on its own: stage reached
    colOut,        \*   the text of the part-file
    colRes,        \*   what lines 87-96 make of it
    rdStage,       \* reducer.py as a process: stage reached
    rdIn,          \*   the lines of its stdin
    rdPos,         \*   how many of them the loop has read
    rdWord,        \*   current_word
    rdCount,       \*   current_count
    rdOut,         \*   its stdout so far
    stStage,       \* GET /api/status: position in status()
    stElapsed,     \*   seconds the probe command has been running
    stProc,        \*   what the probe command ended with
    stResp,        \*   the HTTP response
    nstatus        \* status requests received so far

reqVars == <<pc, text, job_id, cmds, failed, jobProc, stdout, collected, resp, overlap, nreq>>
fsVars == <<localFs, containerTmp, hdfsInputDir, hdfsInput, hdfsOutput>>
mrVars == <<mrStage, mrText, mrMapOut, mrSorted, mrRedOut, mrCounts>>
colVars == <<colStage, colOut, colRes>>
redVars == <<rdStage, rdIn, rdPos, rdWord, rdCount, rdOut>>
stVars == <<stStage, stElapsed, stProc, stResp, nstatus>>
cfgVars == <<workers, reduces>>
vars == <<reqVars, fsVars, mrVars, colVars, redVars, stVars, cfgVars>>

Workers == {"w1", "w2"}

\* the values str(uuid.uuid4())[:8] takes in the model
JobIds == {"j1", "j2"}

NoJob == "none"

\* request bodies
Texts == {<<>>, <<"a", " ", "a">>, <<"B", ",", "a">>}

\* what a failed streaming job reports
JobFailures ==
    { [returncode |-> 1, stderr |-> "err", stdout |-> "out"],
      [returncode |-> 2, stderr |-> "", stdout |-> "out"],
      [returncode |-> 1, stderr |-> "", stdout |-> ""] }

\* a path that does not exist
NoFile == <<"ENOENT">>
NoDir == <<NoFile>>

\* line 51; preceded by a faulty variant that leaves the job id out of the name
InputFile_NoId(id) == <<"input_", "", ".txt">>

InputFile(id) == <<"input_", id, ".txt">>

\* line 52
OutputDir(id) == <<"output_", id>>

InputFiles == {InputFile(id) : id \in JobIds}
OutputDirs == {OutputDir(id) : id \in JobIds}

\* line 47: not text, preceded by a faulty variant that accepts every text
NoText_Never(t) == FALSE

NoText(t) == t = <<>>

(***************************************************************************)
(* Exceptions and the two except clauses (lines 110-114).                  *)
(***************************************************************************)
\* subprocess.CalledProcessError of run(..., check=True); stderr and stdout
\* are "None" unless the call captured them
CalledProcessError(rc, err, out) ==
    [type |-> "CalledProcessError", status |-> 0, returncode |-> rc,
     stderr |-> err, stdout |-> out, str |-> "returned non-zero exit status"]

\* any other exception
PyError(type, status, str) ==
    [type |-> type, status |-> status, returncode |-> 0,
     stderr |-> "None", stdout |-> "None", str |-> str]

\* truth value of an optional string
Truthy(x) == x \notin {"None", ""}

\* line 111, preceded by a faulty variant that tries the two outputs in the other order
ErrorMsg_StdoutFirst(e) ==
    IF Truthy(e.stdout) THEN e.stdout ELSE IF Truthy(e.stderr) THEN e.stderr ELSE e.str

ErrorMsg(e) ==
    IF Truthy(e.stderr) THEN e.stderr ELSE IF Truthy(e.stdout) THEN e.stdout ELSE e.str

NoResp ==
    [status |-> 0, kind |-> "none", job_id |-> NoJob, word_counts |-> <<>>,
     total_words |-> 0, unique_words |-> 0,
     error_prefix |-> "", error |-> "", returncode |-> 0, type |-> ""]

\* lines 110-114: every exception raised inside the try block, the
\* HTTPException of line 48 included, ends as an HTTP 500
ErrorResponse(e) ==
    IF e.type = "CalledProcessError"
    THEN [NoResp EXCEPT !.status = 500, !.kind = "hadoop_error",
                        !.error_prefix = "Hadoop error: ", !.error = ErrorMsg(e),
                        !.returncode = e.returncode]
    ELSE [NoResp EXCEPT !.status = 500, !.kind = "exception",
                        !.error = e.str, !.type = e.type]

\* lines 103-108
ResultResponse(id, c) ==
    [NoResp EXCEPT !.status = 200, !.kind = "result", !.job_id = id,
                   !.word_counts = c.word_counts, !.total_words = c.total_words,
                   !.unique_words = c.unique_words]

NoProc == [returncode |-> 0, stderr |-> "None", stdout |-> "None"]
NoCollected == [ok |-> FALSE, word_counts |-> <<>>, total_words |-> 0, unique_words |-> 0]


(***************************************************************************)
(* Steps of wordcount(), one per statement that touches the file system or *)
(* the cluster.  The outcome of each command is the environment's choice.  *)
(***************************************************************************)
Set(f, w, v) == [f EXCEPT ![w] = v]

Issue(w, cmd) == cmds' = Set(cmds, w, Append(cmds[w], cmd))

\* an exception leaves the try block: the handler answers, nothing else runs
Raise(w, cmd, e) ==
    /\ pc' = Set(pc, w, "done")
    /\ resp' = Set(resp, w, ErrorResponse(e))
    /\ failed' = Set(failed, w, failed[w] \cup {cmd})

\* a request arrives at a worker that is not handling one
Request(w) ==
    /\ pc[w] \in {"idle", "done"}
    /\ nreq < MaxRequests
    /\ \E t \in Texts : text' = Set(text, w, t)
    /\ pc' = Set(pc, w, "validate")
    /\ nreq' = nreq + 1
    /\ job_id' = Set(job_id, w, NoJob)
    /\ cmds' = Set(cmds, w, <<>>)
    /\ failed' = Set(failed, w, {})
    /\ jobProc' = Set(jobProc, w, NoProc)
    /\ stdout' = Set(stdout, w, <<>>)
    /\ collected' = Set(collected, w, NoCollected)
    /\ resp' = Set(resp, w, NoResp)
    /\ overlap' = Set(overlap, w, FALSE)
    /\ UNCHANGED <<fsVars, mrVars, colVars, redVars, stVars, cfgVars>>

\* lines 45-52: the text is checked, then the job is named by a fresh random
\* id; two requests may draw the same one
Validate(w) ==
    /\ pc[w] = "validate"
    /\ IF NoText(text[w])
       THEN /\ pc' = Set(pc, w, "done")
            /\ resp' = Set(resp, w, ErrorResponse(PyError("HTTPException", 400, "No text provided")))
            /\ UNCHANGED <<job_id, overlap>>
       ELSE /\ pc' = Set(pc, w, "write")
            /\ \E id \in JobIds :
                  /\ job_id' = Set(job_id, w, id)
                  /\ overlap' = [v \in Workers |->
                        IF v = w
                        THEN \E u \in Workers \ {w} : job_id[u] = id /\ pc[u] # "done"
                        ELSE overlap[v] \/ (job_id[v] = id /\ pc[v] # "done")]
            /\ UNCHANGED resp
    /\ UNCHANGED <<text, cmds, failed, jobProc, stdout, collected, nreq>>
    /\ UNCHANGED <<fsVars, mrVars, colVars, redVars, stVars, cfgVars>>

\* lines 55-57: open(local_tmp, 'w') and write
WriteLocal(w) ==
    /\ pc[w] = "write"
    /\ Issue(w, "write_local")
    /\ \/ /\ localFs' = [localFs EXCEPT ![InputFile(job_id[w])] = text[w]]
          /\ pc' = Set(pc, w, "docker_cp")
          /\ UNCHANGED <<resp, failed>>
       \/ /\ Raise(w, "write_local", PyError("OSError", 0, "cannot write"))
          /\ UNCHANGED localFs
    /\ UNCHANGED <<text, job_id, jobProc, stdout, collected, overlap, nreq>>
    /\ UNCHANGED <<containerTmp, hdfsInputDir, hdfsInput, hdfsOutput, mrVars, colVars, redVars, stVars, cfgVars>>

\* line 60: docker cp, check=True, output not captured
DockerCp(w) ==
    /\ pc[w] = "docker_cp"
    /\ Issue(w, "docker_cp")
    /\ \/ /\ localFs[InputFile(job_id[w])] # NoFile
          /\ containerTmp' = [containerTmp EXCEPT ![InputFile(job_id[w])] =
                                  localFs[InputFile(job_id[w])]]
          /\ pc' = Set(pc, w, "mkdir")
          /\ UNCHANGED <<resp, failed>>
       \/ /\ Raise(w, "docker_cp", CalledProcessError(1, "None", "None"))
          /\ UNCHANGED containerTmp
    /\ UNCHANGED <<text, job_id, jobProc, stdout, collected, overlap, nreq>>
    /\ UNCHANGED <<localFs, hdfsInputDir, hdfsInput, hdfsOutput, mrVars, colVars, redVars, stVars, cfgVars>>

\* line 63: hdfs dfs -mkdir -p /input; the exit status is not looked at
Mkdir(w) ==
    /\ pc[w] = "mkdir"
    /\ Issue(w, "mkdir")
    /\ \/ /\ hdfsInputDir' = TRUE
          /\ UNCHANGED failed
       \/ /\ failed' = Set(failed, w, failed[w] \cup {"mkdir"})
          /\ UNCHANGED hdfsInputDir
    /\ pc' = Set(pc, w, "put")
    /\ UNCHANGED <<text, job_id, jobProc, stdout, collected, resp, overlap, nreq>>
    /\ UNCHANGED <<localFs, containerTmp, hdfsInput, hdfsOutput, mrVars, colVars, redVars, stVars, cfgVars>>

\* line 66: hdfs dfs -put -f into /input/, check=True, output not captured
Put(w) ==
    /\ pc[w] = "put"
    /\ Issue(w, "put")
    /\ \/ /\ hdfsInputDir
          /\ containerTmp[InputFile(job_id[w])] # NoFile
          /\ hdfsInput' = [hdfsInput EXCEPT ![InputFile(job_id[w])] =
                               containerTmp[InputFile(job_id[w])]]
          /\ pc' = Set(pc, w, "run_job")
          /\ UNCHANGED <<resp, failed>>
       \/ /\ Raise(w, "put", CalledProcessError(1, "None", "None"))
          /\ UNCHANGED hdfsInput
    /\ UNCHANGED <<text, job_id, jobProc, stdout, collected, overlap, nreq>>
    /\ UNCHANGED <<localFs, containerTmp, hdfsInputDir, hdfsOutput, mrVars, colVars, redVars, stVars, cfgVars>>

\* lines 69-80: chmod +x on both scripts, exit statuses not looked at, then
\* hadoop jar ... -input /input/<file> -output /output/<dir>, check=True,
\* output captured.  The engine refuses an output directory
\* that exists and needs its input file.
RunJob(w) ==
    /\ pc[w] = "run_job"
    /\ cmds' = Set(cmds, w, cmds[w] \o <<"chmod_mapper", "chmod_reducer", "hadoop_jar">>)
    /\ \/ /\ hdfsInput[InputFile(job_id[w])] # NoFile
          /\ hdfsOutput[OutputDir(job_id[w])] = NoDir
          /\ hdfsOutput' = [hdfsOutput EXCEPT ![OutputDir(job_id[w])] =
                               EngineOutput(hdfsInput[InputFile(job_id[w])], reduces)]
          /\ jobProc' = Set(jobProc, w, [returncode |-> 0, stderr |-> "", stdout |-> ""])
          /\ pc' = Set(pc, w, "cat")
          /\ UNCHANGED <<resp, failed>>
       \/ /\ \E f \in JobFailures :
                /\ jobProc' = Set(jobProc, w, f)
                /\ Raise(w, "hadoop_jar", CalledProcessError(f.returncode, f.stderr, f.stdout))
          /\ UNCHANGED hdfsOutput
    /\ UNCHANGED <<text, job_id, stdout, collected, overlap, nreq>>
    /\ UNCHANGED <<localFs, containerTmp, hdfsInputDir, hdfsInput, mrVars, colVars, redVars, stVars, cfgVars>>

\* line 84: of the part-files of the output directory the path names
\* part-00000, the first; preceded by a faulty variant that reads them all
RECURSIVE Part00000_Every(_)
Part00000_Every(parts) ==
    IF parts = <<>> THEN <<>> ELSE Head(parts) \o Part00000_Every(Tail(parts))

Part00000(parts) == parts[1]

\* lines 83-96: hdfs dfs -cat /output/<dir>/part-00000, check=True, output
\* captured, then the parsing of its stdout
CatOutput(w) ==
    /\ pc[w] = "cat"
    /\ Issue(w, "cat")
    /\ \/ /\ hdfsOutput[OutputDir(job_id[w])] # NoDir
          /\ LET out == Part00000(hdfsOutput[OutputDir(job_id[w])])
                 c == CollectOutput(out)
             IN  /\ stdout' = Set(stdout, w, out)
                 /\ IF c.ok
                    THEN /\ collected' = Set(collected, w, c)
                         /\ pc' = Set(pc, w, "os_remove")
                         /\ UNCHANGED <<resp, failed>>
                    ELSE /\ Raise(w, "parse", PyError("ValueError", 0, "invalid literal for int()"))
                         /\ UNCHANGED collected
       \/ /\ Raise(w, "cat", CalledProcessError(1, "err", ""))
          /\ UNCHANGED <<stdout, collected>>
    /\ UNCHANGED <<text, job_id, jobProc, overlap, nreq>>
    /\ UNCHANGED <<fsVars, mrVars, colVars, redVars, stVars, cfgVars>>

\* line 99: os.remove(local_tmp) raises when the file is gone or cannot be removed
RemoveLocal(w) ==
    /\ pc[w] = "os_remove"
    /\ Issue(w, "os_remove")
    /\ \/ /\ localFs[InputFile(job_id[w])] # NoFile
          /\ localFs' = [localFs EXCEPT ![InputFile(job_id[w])] = NoFile]
          /\ pc' = Set(pc, w, "rm_input")
          /\ UNCHANGED <<resp, failed>>
       \/ /\ localFs[InputFile(job_id[w])] = NoFile
          /\ Raise(w, "os_remove", PyError("FileNotFoundError", 0, "No such file or directory"))
          /\ UNCHANGED localFs
       \/ /\ localFs[InputFile(job_id[w])] # NoFile
          /\ Raise(w, "os_remove", PyError("PermissionError", 0, "Permission denied"))
          /\ UNCHANGED localFs
    /\ UNCHANGED <<text, job_id, jobProc, stdout, collected, overlap, nreq>>
    /\ UNCHANGED <<containerTmp, hdfsInputDir, hdfsInput, hdfsOutput, mrVars, colVars, redVars, stVars, cfgVars>>

\* line 100: hdfs dfs -rm -r /input/<file>; the exit status is not looked
\* at; preceded by a faulty variant that removes the file staged under
\* /tmp in the container as well
RmInput_AndContainerTmp(w) ==
    /\ pc[w] = "rm_input"
    /\ Issue(w, "rm_input")
    /\ hdfsInput' = [hdfsInput EXCEPT ![InputFile(job_id[w])] = NoFile]
    /\ containerTmp' = [containerTmp EXCEPT ![InputFile(job_id[w])] = NoFile]
    /\ pc' = Set(pc, w, "rm_output")
    /\ UNCHANGED <<text, job_id, failed, jobProc, stdout, collected, resp, overlap, nreq>>
    /\ UNCHANGED <<localFs, hdfsInputDir, hdfsOutput, mrVars, colVars, redVars, stVars, cfgVars>>

RmInput(w) ==
    /\ pc[w] = "rm_input"
    /\ Issue(w, "rm_input")
    /\ \/ /\ hdfsInput[InputFile(job_id[w])] # NoFile
          /\ hdfsInput' = [hdfsInput EXCEPT ![InputFile(job_id[w])] = NoFile]
          /\ UNCHANGED failed
       \/ UNCHANGED <<failed, hdfsInput>>
    /\ pc' = Set(pc, w, "rm_output")
    /\ UNCHANGED <<text, job_id, jobProc, stdout, collected, resp, overlap, nreq>>
    /\ UNCHANGED <<localFs, containerTmp, hdfsInputDir, hdfsOutput, mrVars, colVars, redVars, stVars, cfgVars>>

\* lines 101-108: hdfs dfs -rm -r /output/<dir>, exit status not looked at,
\* then the result is returned
RmOutput(w) ==
    /\ pc[w] = "rm_output"
    /\ Issue(w, "rm_output")
    /\ \/ /\ hdfsOutput[OutputDir(job_id[w])] # NoDir
          /\ hdfsOutput' = [hdfsOutput EXCEPT ![OutputDir(job_id[w])] = NoDir]
          /\ UNCHANGED failed
       \/ UNCHANGED <<failed, hdfsOutput>>
    /\ resp' = Set(resp, w, ResultResponse(job_id[w], collected[w]))
    /\ pc' = Set(pc, w, "done")
    /\ UNCHANGED <<text, job_id, jobProc, stdout, collected, overlap, nreq>>
    /\ UNCHANGED <<localFs, containerTmp, hdfsInputDir, hdfsInput, mrVars, colVars, redVars, stVars, cfgVars>>

(***************************************************************************)
(* The streaming job on its own: mapper.py, the shuffle, reducer.py, and   *)
(* the in-process functions mapper() and reducer() on the same text.       *)
(***************************************************************************)
\* all sequences over alphabet of length at most n
RECURSIVE SeqsUpTo(_, _)
SeqsUpTo(alphabet, n) ==
    IF n = 0 THEN {<<>>}
    ELSE LET shorter == SeqsUpTo(alphabet, n - 1)
         IN  shorter \cup {Append(s, c) : s \in shorter, c \in alphabet}

MRAlphabet == {"a", "B", ",", " ", "\n"}

MRTexts == SeqsUpTo(MRAlphabet, MaxTextLen)

MRMap ==
    /\ mrStage = "input"
    /\ mrMapOut' = MapperScript(mrText)
    /\ mrStage' = "mapped"
    /\ UNCHANGED <<mrText, mrSorted, mrRedOut, mrCounts, reqVars, fsVars, colVars, redVars, stVars, cfgVars>>

MRShuffle ==
    /\ mrStage = "mapped"
    /\ mrSorted' = SortByKey(mrMapOut)
    /\ mrStage' = "sorted"
    /\ UNCHANGED <<mrText, mrMapOut, mrRedOut, mrCounts, reqVars, fsVars, colVars, redVars, stVars, cfgVars>>

MRReduce ==
    /\ mrStage = "sorted"
    /\ mrRedOut' = ReducerScript(mrSorted)
    /\ mrStage' = "reduced"
    /\ UNCHANGED <<mrText, mrMapOut, mrSorted, mrCounts, reqVars, fsVars, colVars, redVars, stVars, cfgVars>>

MRDirect ==
    /\ mrStage = "reduced"
    /\ mrCounts' = reducer(mapper(mrText))
    /\ mrStage' = "done"
    /\ UNCHANGED <<mrText, mrMapOut, mrSorted, mrRedOut, reqVars, fsVars, colVars, redVars, stVars, cfgVars>>

(***************************************************************************)
(* The output collector on its own: lines 87-108 on any part-file text.    *)
(***************************************************************************)
\* longest part-file, in lines
MaxOutLines == 3

ColLines ==
    { <<"a", "\t", "1">>, <<"a", "\t", "2">>, <<"b", "\t", "1">>, <<"\t", "2">>,
      <<"a">>, <<"a", "\t", "x">>, <<"a", "\t", "1", "\t">>, <<>>, <<"a", "\t">> }

ColOutputs == {JoinLines(ls) : ls \in SeqsUpTo(ColLines, MaxOutLines)}

Collect ==
    /\ colStage = "input"
    /\ LET c == CollectOutput(colOut)
       IN  colRes' = IF c.ok THEN ResultResponse("j1", c)
                     ELSE ErrorResponse(PyError("ValueError", 0, "invalid literal for int()"))
    /\ colStage' = "done"
    /\ UNCHANGED <<colOut, reqVars, fsVars, mrVars, redVars, stVars, cfgVars>>

(***************************************************************************)
(* reducer.py as a process on any stdin, one line of the loop per step.    *)
(***************************************************************************)
\* longest stdin of the reducer, in lines
MaxRedLines == 3

\* lines the reducer may be fed: well-formed ones, one of them padded with
\* blanks, and lines with no tab, a count that is no integer, three fields,
\* nothing at all, or no word before the tab
RedLines ==
    { <<"a", "\t", "1">>, <<"a", "\t", "2">>, <<"b", "\t", "1">>,
      <<" ", "a", "\t", "1", " ">>,
      <<"a">>, <<"a", "\t", "x">>, <<"a", "\t", "1", "\t", "2">>, <<>>,
      <<"\t", "1">> }

RedInputs == SeqsUpTo(RedLines, MaxRedLines)

\* the line the loop reads next
RedLine == rdIn[rdPos + 1]

\* lines 15-21: the line does not unpack into two fields, or int(count)
\* raises; the bare except goes on with the next line; preceded by a faulty
\* variant that closes the current group on such a line
RedSkip_Flush ==
    /\ rdStage = "reading" /\ rdPos < Len(rdIn)
    /\ ~ParseRecord(RedLine).ok
    /\ rdPos' = rdPos + 1
    /\ rdOut' = rdOut \o ReducerFlush(rdWord, rdCount)
    /\ rdWord' = NoWord
    /\ rdCount' = 0
    /\ UNCHANGED <<rdStage, rdIn, reqVars, fsVars, mrVars, colVars, stVars, cfgVars>>

RedSkip ==
    /\ rdStage = "reading" /\ rdPos < Len(rdIn)
    /\ ~ParseRecord(RedLine).ok
    /\ rdPos' = rdPos + 1
    /\ UNCHANGED <<rdStage, rdIn, rdWord, rdCount, rdOut>>
    /\ UNCHANGED <<reqVars, fsVars, mrVars, colVars, stVars, cfgVars>>

\* lines 15-24: a record of the current word
RedSame ==
    /\ rdStage = "reading" /\ rdPos < Len(rdIn)
    /\ ParseRecord(RedLine).ok
    /\ ParseRecord(RedLine).word = rdWord
    /\ rdCount' = rdCount + ParseRecord(RedLine).count
    /\ rdPos' = rdPos + 1
    /\ UNCHANGED <<rdStage, rdIn, rdWord, rdOut>>
    /\ UNCHANGED <<reqVars, fsVars, mrVars, colVars, stVars, cfgVars>>

\* lines 15-19 and 25-29: a record of another word; the current group, if
\* any, is printed and the new one starts; preceded by a faulty variant that
\* starts the new group without printing the current one
RedNew_NoPrint ==
    /\ rdStage = "reading" /\ rdPos < Len(rdIn)
    /\ ParseRecord(RedLine).ok
    /\ ParseRecord(RedLine).word # rdWord
    /\ rdWord' = ParseRecord(RedLine).word
    /\ rdCount' = ParseRecord(RedLine).count
    /\ rdPos' = rdPos + 1
    /\ UNCHANGED <<rdStage, rdIn, rdOut, reqVars, fsVars, mrVars, colVars, stVars, cfgVars>>

RedNew ==
    /\ rdStage = "reading" /\ rdPos < Len(rdIn)
    /\ ParseRecord(RedLine).ok
    /\ ParseRecord(RedLine).word # rdWord
    /\ rdOut' = rdOut \o ReducerFlush(rdWord, rdCount)
    /\ rdWord' = ParseRecord(RedLine).word
    /\ rdCount' = ParseRecord(RedLine).count
    /\ rdPos' = rdPos + 1
    /\ UNCHANGED <<rdStage, rdIn>>
    /\ UNCHANGED <<reqVars, fsVars, mrVars, colVars, stVars, cfgVars>>

\* lines 31-32: stdin is exhausted, the last group is printed; preceded by a
\* faulty variant that ends without printing it
RedEnd_NoFlush ==
    /\ rdStage = "reading" /\ rdPos = Len(rdIn)
    /\ rdStage' = "done"
    /\ UNCHANGED <<rdIn, rdPos, rdWord, rdCount, rdOut>>
    /\ UNCHANGED <<reqVars, fsVars, mrVars, colVars, stVars, cfgVars>>

RedEnd ==
    /\ rdStage = "reading" /\ rdPos = Len(rdIn)
    /\ rdOut' = rdOut \o ReducerFlush(rdWord, rdCount)
    /\ rdStage' = "done"
    /\ UNCHANGED <<rdIn, rdPos, rdWord, rdCount>>
    /\ UNCHANGED <<reqVars, fsVars, mrVars, colVars, stVars, cfgVars>>

(***************************************************************************)
(* app.py: GET /api/status (lines 25-40).  The probe command runs for a    *)
(* number of seconds the environment chooses; subprocess.run gives it      *)
(* timeout=10.                                                             *)
(***************************************************************************)
\* total number of GET /api/status requests the service handles
MaxStatusRequests == 2

\* line 32: timeout=10
ProbeTimeout == 10

\* exit statuses and stderr texts of hdfs dfsadmin -report
ProbeCodes == {0, 1, 255}
ProbeStderrs == {"", "Connection refused"}

\* exceptions subprocess.run raises when the command cannot be started
SpawnErrors ==
    { [type |-> "FileNotFoundError", str |-> <<"No such file or directory: 'docker'">>],
      [type |-> "PermissionError", str |-> <<"Permission denied: 'docker'">>] }

NoProbe == [outcome |-> "none", returncode |-> 0, stderr |-> "None"]

NoStatusResp == [status |-> 0, body_status |-> "", message |-> <<>>, stderr |-> "None"]

\* line 36
Healthy ==
    [status |-> 200, body_status |-> "running", message |-> <<"Cluster is healthy">>,
     stderr |-> "None"]

\* the detail of the HTTPException of line 38
NotResponding(err) ==
    [status |-> 500, body_status |-> "error", message |-> <<"Cluster not responding">>,
     stderr |-> err]

\* str(e) of an HTTPException: empty where the class defines no __str__
\* and is built from keyword arguments only, "<status_code>: <detail>" where
\* it defines one; which of the two depends on the installed framework
HTTPExceptionStrs(d) ==
    { <<>>,
      <<"500: ", "{'status': '", d.body_status, "', 'message': '">> \o d.message
          \o <<"', 'stderr': '", d.stderr, "'}">> }

\* lines 39-40: whatever was raised inside the try block, the HTTPException
\* of line 38 included, is answered as status 500 with str(e) as message
StatusError(str) ==
    [status |-> 500, body_status |-> "error", message |-> str, stderr |-> "None"]

\* a status request arrives
StatusRequest ==
    /\ stStage \in {"idle", "done"}
    /\ nstatus < MaxStatusRequests
    /\ nstatus' = nstatus + 1
    /\ stStage' = "probing"
    /\ stElapsed' = 0
    /\ stProc' = NoProbe
    /\ stResp' = NoStatusResp
    /\ UNCHANGED <<reqVars, fsVars, mrVars, colVars, redVars, cfgVars>>

\* lines 28-33 and 39-40: the command cannot be started
ProbeSpawnFails ==
    /\ stStage = "probing" /\ stElapsed = 0
    /\ \E e \in SpawnErrors :
          /\ stProc' = [NoProbe EXCEPT !.outcome = e.type]
          /\ stResp' = StatusError(e.str)
    /\ stStage' = "done"
    /\ UNCHANGED <<stElapsed, nstatus, reqVars, fsVars, mrVars, colVars, redVars, cfgVars>>

\* the command is still running after one more second
ProbeTick ==
    /\ stStage = "probing" /\ stElapsed < ProbeTimeout
    /\ stElapsed' = stElapsed + 1
    /\ UNCHANGED <<stStage, stProc, stResp, nstatus>>
    /\ UNCHANGED <<reqVars, fsVars, mrVars, colVars, redVars, cfgVars>>

\* lines 28-40: the command exits before the timeout
ProbeExit ==
    /\ stStage = "probing" /\ stElapsed < ProbeTimeout
    /\ \E rc \in ProbeCodes, err \in ProbeStderrs :
          /\ stProc' = [outcome |-> "exit", returncode |-> rc, stderr |-> err]
          /\ IF rc = 0
             THEN stResp' = Healthy
             ELSE \E str \in HTTPExceptionStrs(NotResponding(err)) :
                     stResp' = StatusError(str)
    /\ stStage' = "done"
    /\ UNCHANGED <<stElapsed, nstatus, reqVars, fsVars, mrVars, colVars, redVars, cfgVars>>

\* lines 28-33 and 39-40: the command is killed after ProbeTimeout seconds
\* and subprocess.TimeoutExpired is raised
ProbeTimesOut ==
    /\ stStage = "probing" /\ stElapsed = ProbeTimeout
    /\ stProc' = [NoProbe EXCEPT !.outcome = "TimeoutExpired"]
    /\ stResp' = StatusError(<<"Command '['docker', 'exec', 'namenode', 'hdfs', 'dfsadmin', '-report']' timed out after 10 seconds">>)
    /\ stStage' = "done"
    /\ UNCHANGED <<stElapsed, nstatus, reqVars, fsVars, mrVars, colVars, redVars, cfgVars>>

(***************************************************************************)
(* Specifications.                                                         *)
(***************************************************************************)
ReqInit ==
    /\ pc = [w \in Workers |-> "idle"]
    /\ text = [w \in Workers |-> <<>>]
    /\ job_id = [w \in Workers |-> NoJob]
    /\ cmds = [w \in Workers |-> <<>>]
    /\ failed = [w \in Workers |-> {}]
    /\ jobProc = [w \in Workers |-> NoProc]
    /\ stdout = [w \in Workers |-> <<>>]
    /\ collected = [w \in Workers |-> NoCollected]
    /\ resp = [w \in Workers |-> NoResp]
    /\ overlap = [w \in Workers |-> FALSE]
    /\ nreq = 0
    /\ workers = {"w1"}
    /\ reduces = 1

FsInit ==
    /\ localFs = [f \in InputFiles |-> NoFile]
    /\ containerTmp = [f \in InputFiles |-> NoFile]
    /\ hdfsInputDir = FALSE
    /\ hdfsInput = [f \in InputFiles |-> NoFile]
    /\ hdfsOutput = [d \in OutputDirs |-> NoDir]

MRIdle ==
    /\ mrStage = "idle"
    /\ mrText = <<>>
    /\ mrMapOut = <<>>
    /\ mrSorted = <<>>
    /\ mrRedOut = <<>>
    /\ mrCounts = <<>>

ColIdle ==
    /\ colStage = "idle"
    /\ colOut = <<>>
    /\ colRes = NoResp

RedIdle ==
    /\ rdStage = "idle"
    /\ rdIn = <<>>
    /\ rdPos = 0
    /\ rdWord = NoWord
    /\ rdCount = 0
    /\ rdOut = <<>>

StIdle ==
    /\ stStage = "idle"
    /\ stElapsed = 0
    /\ stProc = NoProbe
    /\ stResp = NoStatusResp
    /\ nstatus = 0

\* the service
Init == ReqInit /\ FsInit /\ MRIdle /\ ColIdle /\ RedIdle /\ StIdle

Next ==
    \/ \E w \in workers : Request(w)
    \/ \E w \in workers : Validate(w)
    \/ \E w \in workers : WriteLocal(w)
    \/ \E w \in workers : DockerCp(w)
    \/ \E w \in workers : Mkdir(w)
    \/ \E w \in workers : Put(w)
    \/ \E w \in workers : RunJob(w)
    \/ \E w \in workers : CatOutput(w)
    \/ \E w \in workers : RemoveLocal(w)
    \/ \E w \in workers : RmInput(w)
    \/ \E w \in workers : RmOutput(w)

Spec == Init /\ [][Next]_vars

\* the service deployed with several worker processes, whose requests interleave
ConcReqInit ==
    /\ pc = [w \in Workers |-> "idle"]
    /\ text = [w \in Workers |-> <<>>]
    /\ job_id = [w \in Workers |-> NoJob]
    /\ cmds = [w \in Workers |-> <<>>]
    /\ failed = [w \in Workers |-> {}]
    /\ jobProc = [w \in Workers |-> NoProc]
    /\ stdout = [w \in Workers |-> <<>>]
    /\ collected = [w \in Workers |-> NoCollected]
    /\ resp = [w \in Workers |-> NoResp]
    /\ overlap = [w \in Workers |-> FALSE]
    /\ nreq = 0
    /\ workers = Workers
    /\ reduces = 1

ConcInit == ConcReqInit /\ FsInit /\ MRIdle /\ ColIdle /\ RedIdle /\ StIdle

SpecConc == ConcInit /\ [][Next]_vars

\* the service on a cluster that runs two reduce tasks per job
PartsReqInit ==
    /\ pc = [w \in Workers |-> "idle"]
    /\ text = [w \in Workers |-> <<>>]
    /\ job_id = [w \in Workers |-> NoJob]
    /\ cmds = [w \in Workers |-> <<>>]
    /\ failed = [w \in Workers |-> {}]
    /\ jobProc = [w \in Workers |-> NoProc]
    /\ stdout = [w \in Workers |-> <<>>]
    /\ collected = [w \in Workers |-> NoCollected]
    /\ resp = [w \in Workers |-> NoResp]
    /\ overlap = [w \in Workers |-> FALSE]
    /\ nreq = 0
    /\ workers = {"w1"}
    /\ reduces = 2

PartsInit == PartsReqInit /\ FsInit /\ MRIdle /\ ColIdle /\ RedIdle /\ StIdle

SpecParts == PartsInit /\ [][Next]_vars

\* the streaming job on any text
MRInit ==
    /\ ReqInit /\ FsInit /\ ColIdle /\ RedIdle /\ StIdle
    /\ mrStage = "input"
    /\ mrText \in MRTexts
    /\ mrMapOut = <<>>
    /\ mrSorted = <<>>
    /\ mrRedOut = <<>>
    /\ mrCounts = <<>>

MRNext == MRMap \/ MRShuffle \/ MRReduce \/ MRDirect

SpecMR == MRInit /\ [][MRNext]_vars

\* mapper.py on any line: letters of both cases, a comma, an underscore, blanks
MapAlphabet == {"a", "B", ",", "_", " "}

MapTexts == SeqsUpTo(MapAlphabet, MaxTextLen)

MapInit ==
    /\ ReqInit /\ FsInit /\ ColIdle /\ RedIdle /\ StIdle
    /\ mrStage = "input"
    /\ mrText \in MapTexts
    /\ mrMapOut = <<>>
    /\ mrSorted = <<>>
    /\ mrRedOut = <<>>
    /\ mrCounts = <<>>

MapNext == MRMap

SpecMap == MapInit /\ [][MapNext]_vars

\* the output collector on any part-file
ColInit ==
    /\ ReqInit /\ FsInit /\ MRIdle /\ RedIdle /\ StIdle
    /\ colStage = "input"
    /\ colOut \in ColOutputs
    /\ colRes = NoResp

ColNext == Collect

SpecCol == ColInit /\ [][ColNext]_vars

\* reducer.py on any stdin
RedInit ==
    /\ ReqInit /\ FsInit /\ MRIdle /\ ColIdle /\ StIdle
    /\ rdStage = "reading"
    /\ rdIn \in RedInputs
    /\ rdPos = 0
    /\ rdWord = NoWord
    /\ rdCount = 0
    /\ rdOut = <<>>

RedNext == RedSkip \/ RedSame \/ RedNew \/ RedEnd

SpecRed == RedInit /\ [][RedNext]_vars

\* the status endpoint
StatusNext ==
    \/ StatusRequest
    \/ ProbeSpawnFails
    \/ ProbeTick
    \/ ProbeExit
    \/ ProbeTimesOut

SpecStatus == Init /\ [][StatusNext]_vars


(***************************************************************************)
(* Properties.                                                             *)
(***************************************************************************)
Issued(w, cmd) == \E i \in 1..Len(cmds[w]) : cmds[w][i] = cmd

Succeeded(w, cmd) == Issued(w, cmd) /\ cmd \notin failed[w]

CleanupCmds == <<"os_remove", "rm_input", "rm_output">>

\* the removal attempts of the request, in order
CleanupIssued(w) ==
    SelectSeq(cmds[w], LAMBDA c : c \in {"os_remove", "rm_input", "rm_output"})

StagingCmds == {"write_local", "docker_cp", "mkdir", "put"}

\* C1: every request that passes validation has attempted the three
\* removals (local input file, HDFS input file, HDFS output directory)
\* exactly once when its response is produced, whichever stage failed.
C1_CleanupOnEveryExit ==
    \A w \in Workers :
        pc[w] = "done" /\ text[w] # <<>> => CleanupIssued(w) = CleanupCmds

\* C2: when a request has returned, the removal of every artifact it
\* created (local input file, HDFS input file, HDFS output directory) has
\* been attempted.
C2_NoArtifactOutlivesRequest ==
    \A w \in Workers :
        pc[w] = "done" =>
            /\ Succeeded(w, "write_local") => Issued(w, "os_remove")
            /\ Succeeded(w, "put") => Issued(w, "rm_input")
            /\ Succeeded(w, "hadoop_jar") => Issued(w, "rm_output")

\* C3: a request with empty text is answered with HTTP status 400.
C3_EmptyTextIs400 ==
    \A w \in Workers :
        pc[w] = "done" /\ text[w] = <<>> => resp[w].status = 400

\* after the step, a request of worker w that ended on empty text has drawn
\* no job id and issued no command
RejectedCleanly(w) ==
    pc'[w] = "done" /\ text'[w] = <<>> =>
        job_id'[w] = NoJob /\ cmds'[w] = <<>>

\* C4: a request with empty text ends without a job id and without any
\* file or cluster command, and the step that rejects it leaves local
\* storage, the container and HDFS as they were.
C4_EmptyTextNoEffects ==
    [][\A w \in Workers :
          /\ RejectedCleanly(w)
          /\ text[w] = <<>> /\ pc[w] = "validate" /\ pc'[w] # "validate" =>
                fsVars' = fsVars /\ pc'[w] = "done"]_vars

C4_Witness ==
    \E w \in Workers :
        pc[w] = "done" /\ text[w] = <<>> /\ nreq = 2 /\ hdfsInputDir

\* C5: a failing removal never changes the outcome: a request whose output
\* was collected returns the result payload.
C5_CleanupNeverMasksResult ==
    \A w \in Workers :
        pc[w] = "done" /\ collected[w].ok =>
            resp[w].kind = "result" /\ resp[w].word_counts = collected[w].word_counts

\* C6: when a staging step (local write, copy into the container, creation
\* of /input, upload) has failed, the streaming job is never invoked and the
\* request ends with an error response.
C6_StagingFailureAborts ==
    \A w \in Workers :
        failed[w] \cap StagingCmds # {} =>
            /\ ~Issued(w, "hadoop_jar")
            /\ pc[w] = "done" => resp[w].status = 500

\* C7: when the streaming job exits non-zero, the read command is never
\* issued and the response is an HTTP 500 carrying the exit code and the
\* engine's diagnostic text (stderr, or stdout when stderr is empty).
C7_JobFailureReported ==
    \A w \in Workers :
        "hadoop_jar" \in failed[w] =>
            /\ pc[w] = "done"
            /\ ~Issued(w, "cat")
            /\ resp[w].status = 500
            /\ resp[w].returncode = jobProc[w].returncode
            /\ resp[w].returncode # 0
            /\ resp[w].error_prefix = "Hadoop error: "
            /\ jobProc[w].stderr # "" => resp[w].error = jobProc[w].stderr
            /\ jobProc[w].stderr = "" /\ jobProc[w].stdout # "" =>
                   resp[w].error = jobProc[w].stdout

C7_Witness ==
    \E w \in Workers :
        /\ "hadoop_jar" \in failed[w]
        /\ jobProc[w].returncode = 1
        /\ jobProc[w].stderr = "err" /\ jobProc[w].stdout = "out"

\* the sum of the counts of a dict, key by key
RECURSIVE SumOverKeys(_, _)
SumOverKeys(d, keys) ==
    IF keys = {} THEN 0
    ELSE LET k == CHOOSE x \in keys : TRUE
         IN  DictGet(d, k, 0) + SumOverKeys(d, keys \ {k})

\* C8: in every result payload total_words is the sum of the values of
\* word_counts and unique_words the number of its keys, whatever the
\* part-file holds.
C8_TotalsAgree ==
    colStage = "done" /\ colRes.kind = "result" =>
        /\ colRes.total_words = SumOverKeys(colRes.word_counts, DictKeys(colRes.word_counts))
        /\ colRes.unique_words = Cardinality(DictKeys(colRes.word_counts))

C8_Witness ==
    /\ colStage = "done" /\ colRes.kind = "result"
    /\ colRes.unique_words = 2 /\ colRes.total_words = 3
    /\ Len(Records(colOut)) = 3


\* the artifacts named by a job id
ArtifactsOf(id) ==
    <<localFs[InputFile(id)], containerTmp[InputFile(id)],
      hdfsInput[InputFile(id)], hdfsOutput[OutputDir(id)]>>

\* word_counts of a request for text t that runs alone and succeeds
AloneCounts(t) == CollectOutput(EngineOutput(t, reduces)[1]).word_counts

\* the step that ends a request of worker w which kept its id to itself
\* ends it as if alone
EndsAsIfAlone(w) ==
    pc[w] # "done" /\ pc'[w] = "done" /\ ~overlap'[w] =>
        /\ resp'[w].kind = "result" =>
              /\ resp'[w].word_counts = AloneCounts(text'[w])
              /\ resp'[w].job_id = job_id'[w]
        /\ resp'[w].type # "FileNotFoundError"

\* C9: of two requests running with distinct job ids, no step of one
\* changes an artifact named by the other's id, and a request that never
\* shared its id with a concurrent one ends as if it ran alone: a result
\* is the word count of its own text, and its local file is never missing
\* at removal.
C9_DistinctIdsIsolated ==
    [][/\ \A w, v \in Workers :
            /\ pc'[w] # pc[w]
            /\ job_id[v] # NoJob
            /\ job_id[v] # job_id[w]
            => ArtifactsOf(job_id[v])' = ArtifactsOf(job_id[v])
       /\ \A w \in Workers : EndsAsIfAlone(w)]_vars

C9_Witness ==
    \E w, v \in Workers :
        /\ pc[w] = "done" /\ resp[w].kind = "result" /\ ~overlap[w]
        /\ pc[v] = "os_remove" /\ ~overlap[v]
        /\ job_id[v] # job_id[w] /\ text[v] # text[w]
        /\ collected[v].word_counts # resp[w].word_counts

\* the (word, count) records of a reducer output stream
StreamPairs(stream) ==
    LET recs == Records(stream)
    IN  {<<SplitOn(recs[i], "\t")[1], ParseInt(SplitOn(recs[i], "\t")[2]).val>> :
            i \in 1..Len(recs)}

DictPairs(d) == {d[i] : i \in 1..Len(d)}

\* C10: for any text, mapper.py's output sorted by key and fed to
\* reducer.py gives one record per word, the same word-to-count aggregate
\* as reducer(mapper(text)) computed in-process.
C10_RoundTrip ==
    mrStage = "done" =>
        /\ StreamPairs(mrRedOut) = DictPairs(mrCounts)
        /\ Len(Records(mrRedOut)) = Len(mrCounts)

C10_Witness ==
    /\ mrStage = "done"
    /\ mrSorted # mrMapOut
    /\ \E i \in 1..Len(mrCounts) : mrCounts[i][2] = 2
    /\ Len(mrCounts) = 2

(***************************************************************************)
(* The streaming reducer on any stdin (SpecRed).                           *)
(***************************************************************************)
TabPositions(t) == {i \in 1..Len(t) : t[i] = "\t"}

\* a line that reads as one word, one tab and one integer once the blanks
\* around it are dropped
WellFormed(line) ==
    LET t == Strip(line)
    IN  /\ Cardinality(TabPositions(t)) = 1
        /\ LET tab == CHOOSE i \in TabPositions(t) : TRUE
           IN  ParseInt(SubSeq(t, tab + 1, Len(t))).ok

\* the (word, count) pair of a well-formed line
PairOf(line) ==
    LET t == Strip(line)
        tab == CHOOSE i \in TabPositions(t) : TRUE
    IN  <<SubSeq(t, 1, tab - 1), ParseInt(SubSeq(t, tab + 1, Len(t))).val>>

\* the pairs of the well-formed lines among lines, in order
GoodPairs(lines) ==
    LET good == SelectSeq(lines, WellFormed)
    IN  [i \in 1..Len(good) |-> PairOf(good[i])]

\* positions where a maximal run of one word starts, and where it ends
RunStarts(pairs) ==
    {i \in 1..Len(pairs) : i = 1 \/ pairs[i][1] # pairs[i - 1][1]}

RunEnd(pairs, i) ==
    CHOOSE j \in i..Len(pairs) :
        /\ \A k \in i..j : pairs[k][1] = pairs[i][1]
        /\ j = Len(pairs) \/ pairs[j + 1][1] # pairs[i][1]

RECURSIVE SumCounts(_, _, _)
SumCounts(pairs, i, j) ==
    IF i > j THEN 0 ELSE pairs[i][2] + SumCounts(pairs, i + 1, j)

\* the k-th smallest element of a set of numbers
Nth(S, k) == CHOOSE x \in S : Cardinality({y \in S : y < x}) = k - 1

\* one (word, total) pair per maximal run of one word, in order
RunsOf(pairs) ==
    [k \in 1..Cardinality(RunStarts(pairs)) |->
        LET i == Nth(RunStarts(pairs), k)
        IN  <<pairs[i][1], SumCounts(pairs, i, RunEnd(pairs, i))>>]

\* the (word, total) records of the reducer's stdout, in order
OutRecords(stream) ==
    LET recs == Records(stream)
    IN  [i \in 1..Len(recs) |->
            <<SplitOn(recs[i], "\t")[1], ParseInt(SplitOn(recs[i], "\t")[2]).val>>]

WordsOf(pairs) == {pairs[i][1] : i \in 1..Len(pairs)}

\* C11: the streaming reducer goes past every line that is not a (word,
\* integer) pair without stopping and without touching the current group
\* or the output, so that at end of input the output is what the
\* well-formed lines alone give: a malformed line between two lines of one
\* word does not split that word's group.
C11_MalformedSkipped ==
    [][/\ rdStage = "reading" /\ rdPos < Len(rdIn) /\ ~WellFormed(rdIn[rdPos + 1]) =>
              /\ rdStage' = "reading" /\ rdPos' = rdPos + 1
              /\ rdWord' = rdWord /\ rdCount' = rdCount /\ rdOut' = rdOut
       /\ rdStage = "reading" /\ rdStage' = "done" =>
              OutRecords(rdOut') = RunsOf(GoodPairs(rdIn))]_vars

C11_Witness ==
    /\ rdStage = "done" /\ Len(rdIn) = 3
    /\ WellFormed(rdIn[1]) /\ ~WellFormed(rdIn[2]) /\ WellFormed(rdIn[3])
    /\ PairOf(rdIn[1])[1] = PairOf(rdIn[3])[1]
    /\ OutRecords(rdOut) = <<<<PairOf(rdIn[1])[1], 3>>>>

AllWellFormed(lines) == \A i \in 1..Len(lines) : WellFormed(lines[i])

\* equal words stand next to each other
Grouped(pairs) ==
    \A i, k \in 1..Len(pairs) :
        i < k /\ pairs[i][1] = pairs[k][1] =>
            \A j \in i..k : pairs[j][1] = pairs[i][1]

\* C14: on well-formed lines the streaming reducer prints a record only
\* when the word of the line read differs from the current word or stdin
\* has ended, and the record is the current word with its running sum; at
\* the end the output is one (word, total) record per maximal run of one
\* word, in input order, which for grouped input is one record per
\* distinct word.
C14_OneRecordPerRun ==
    [][AllWellFormed(rdIn) =>
          /\ rdOut' # rdOut =>
                /\ rdWord # NoWord
                /\ OutRecords(rdOut') = Append(OutRecords(rdOut), <<rdWord, rdCount>>)
                /\ \/ rdStage' = "done" /\ rdPos = Len(rdIn)
                   \/ rdPos < Len(rdIn) /\ PairOf(rdIn[rdPos + 1])[1] # rdWord
          /\ rdStage = "reading" /\ rdStage' = "done" =>
                /\ OutRecords(rdOut') = RunsOf(GoodPairs(rdIn))
                /\ Grouped(GoodPairs(rdIn)) =>
                      Len(OutRecords(rdOut')) = Cardinality(WordsOf(GoodPairs(rdIn)))]_vars

C14_Witness ==
    /\ rdStage = "done" /\ Len(rdIn) = 3 /\ AllWellFormed(rdIn)
    /\ ~Grouped(GoodPairs(rdIn))
    /\ Len(OutRecords(rdOut)) = 3
    /\ Cardinality(WordsOf(GoodPairs(rdIn))) = 2

\* what the loop holds for the group it has not printed yet
PendingCount == IF rdStage = "reading" /\ rdWord # NoWord THEN rdCount ELSE 0

PendingWords == IF rdStage = "reading" /\ rdWord # NoWord THEN {rdWord} ELSE {}

\* C17: whatever the order of the lines and the malformed lines among
\* them, the totals printed so far plus the running sum of the current
\* group equal the sum of the counts of the well-formed lines read, and
\* the words printed plus the current word are the words of those lines;
\* at end of input nothing is pending, so the printed totals add up to the
\* counts of all well-formed lines and the printed words are their words.
C17_CountsConserved ==
    rdStage \in {"reading", "done"} =>
        LET out == OutRecords(rdOut)
            read == GoodPairs(SubSeq(rdIn, 1, rdPos))
        IN  /\ SumCounts(out, 1, Len(out)) + PendingCount = SumCounts(read, 1, Len(read))
            /\ WordsOf(out) \cup PendingWords = WordsOf(read)
            /\ rdStage = "done" => rdPos = Len(rdIn)

C17_Witness ==
    /\ rdStage = "done" /\ Len(rdIn) = 3
    /\ WellFormed(rdIn[1]) /\ ~WellFormed(rdIn[2]) /\ WellFormed(rdIn[3])
    /\ KeyLess(PairOf(rdIn[3])[1], PairOf(rdIn[1])[1])
    /\ Len(OutRecords(rdOut)) = 2
    /\ SumCounts(OutRecords(rdOut), 1, 2) = 2

(***************************************************************************)
(* The output collector on any part-file (SpecCol).                        *)
(***************************************************************************)
\* the non-empty lines of the part-file as it stands, and as they are
\* once the blanks and newlines around the whole text are dropped
RawLines(out) == SelectSeq(SplitOn(out, "\n"), LAMBDA l : l # <<>>)

StrippedLines(out) == SelectSeq(SplitOn(Strip(out), "\n"), LAMBDA l : l # <<>>)

\* the lines with exactly two tab-separated fields, and their fields
TwoFields(lines) == SelectSeq(lines, LAMBDA l : Cardinality(TabPositions(l)) = 1)

FieldOne(l) == SubSeq(l, 1, FirstIndex(l, "\t") - 1)

FieldTwo(l) == SubSeq(l, FirstIndex(l, "\t") + 1, Len(l))

\* the collector's answer for these lines: an error when a two-field line
\* has a count that is no integer, else a result whose word_counts holds
\* the two-field lines and nothing else, a later line of a word replacing
\* an earlier one
CollectsFrom(lines) ==
    LET two == TwoFields(lines)
        fatal == \E i \in 1..Len(two) : ~ParseInt(FieldTwo(two[i])).ok
    IN  /\ fatal => colRes.status = 500 /\ colRes.kind = "exception"
        /\ ~fatal =>
              /\ colRes.status = 200 /\ colRes.kind = "result"
              /\ DictKeys(colRes.word_counts) = {FieldOne(two[i]) : i \in 1..Len(two)}
              /\ \A i \in 1..Len(two) :
                    (\A j \in (i + 1)..Len(two) : FieldOne(two[j]) # FieldOne(two[i])) =>
                        DictGet(colRes.word_counts, FieldOne(two[i]), 0)
                            = ParseInt(FieldTwo(two[i])).val

\* C15 as claimed: of the non-empty lines of the part-file, those without
\* exactly two tab-separated fields are discarded and the others
\* collected; a two-field line whose count is no integer fails the request,
\* and no result that leaves that line out is returned.
C15_MalformedDiscarded ==
    colStage = "done" => CollectsFrom(RawLines(colOut))

\* C15 as amended: the same of the lines of the part-file taken after the
\* blanks, tabs and newlines at the two ends of the whole text are dropped.
C15_StrippedLinesCollected ==
    colStage = "done" => CollectsFrom(StrippedLines(colOut))

C15_Witness ==
    /\ colStage = "done" /\ colRes.kind = "result"
    /\ Len(RawLines(colOut)) = 3
    /\ TabPositions(RawLines(colOut)[2]) = {}
    /\ Cardinality(TabPositions(RawLines(colOut)[3])) = 2
    /\ colRes.unique_words = 2

(***************************************************************************)
(* The service on a cluster with several reduce tasks (SpecParts).         *)
(***************************************************************************)
\* the words of text with their counts, whichever reduce task counted them
FullCounts(t) == DictPairs(reducer(mapper(t)))

\* those of them whose key the engine sends to the first reduce task
FirstPartitionCounts(t) == {p \in FullCounts(t) : KeyHash(p[1]) % reduces = 0}

RECURSIVE SumOfPairs(_)
SumOfPairs(ps) ==
    IF ps = {} THEN 0
    ELSE LET p == CHOOSE x \in ps : TRUE IN p[2] + SumOfPairs(ps \ {p})

\* C16: when the job writes several part-files, a request that succeeds
\* returns exactly the words of the first partition with their counts,
\* total_words and unique_words are those of that partition alone, and the
\* response is a plain 200 result with no error entry.
C16_OnlyFirstPartRead ==
    \A w \in Workers :
        pc[w] = "done" /\ resp[w].kind = "result" =>
            /\ DictPairs(resp[w].word_counts) = FirstPartitionCounts(text[w])
            /\ Len(resp[w].word_counts) = Cardinality(FirstPartitionCounts(text[w]))
            /\ resp[w].total_words = SumOfPairs(FirstPartitionCounts(text[w]))
            /\ resp[w].unique_words = Cardinality(FirstPartitionCounts(text[w]))
            /\ resp[w].status = 200
            /\ resp[w].error = "" /\ resp[w].error_prefix = "" /\ resp[w].type = ""

C16_Witness ==
    \E w \in Workers :
        /\ pc[w] = "done" /\ resp[w].kind = "result"
        /\ Cardinality(FullCounts(text[w])) = 2
        /\ resp[w].unique_words = 1
        /\ reduces = 2 /\ Len(Records(stdout[w])) = 1

(***************************************************************************)
(* Removal of the artifacts of a job (Spec).                               *)
(***************************************************************************)
\* every file and cluster command wordcount() issues; none removes a file
\* under /tmp in the container
KnownCmds ==
    {"write_local", "docker_cp", "mkdir", "put", "chmod_mapper", "chmod_reducer",
     "hadoop_jar", "cat", "os_remove", "rm_input", "rm_output"}

\* C18: a request that returns a result has, as its last three commands and
\* in this order, removed or tried to remove the local input file, the
\* HDFS input file and the HDFS output directory; the copy of the input
\* file under /tmp in the container is still there, holding the request's
\* text, and no step of any request ever removes such a copy.
C18_CleanupOrderTmpKept ==
    [][/\ \A w \in Workers :
             pc[w] # "done" /\ pc'[w] = "done" /\ resp'[w].kind = "result" =>
                 /\ SelectSeq(cmds'[w], LAMBDA c : c \in {"os_remove", "rm_input", "rm_output"})
                       = CleanupCmds
                 /\ SubSeq(cmds'[w], Len(cmds'[w]) - 2, Len(cmds'[w])) = CleanupCmds
                 /\ containerTmp'[InputFile(job_id'[w])] = text'[w]
       /\ \A f \in InputFiles : containerTmp[f] # NoFile => containerTmp'[f] # NoFile
       /\ \A w \in Workers : \A i \in 1..Len(cmds'[w]) : cmds'[w][i] \in KnownCmds]_vars

C18_Witness ==
    \E w \in Workers :
        /\ pc[w] = "done" /\ resp[w].kind = "result"
        /\ localFs[InputFile(job_id[w])] = NoFile
        /\ hdfsInput[InputFile(job_id[w])] = NoFile
        /\ hdfsOutput[OutputDir(job_id[w])] = NoDir
        /\ containerTmp[InputFile(job_id[w])] = text[w]

(***************************************************************************)
(* The mapper on any line (SpecMap).                                       *)
(***************************************************************************)
\* punctuation marks and uppercase letters among the characters of the model
IsPunct(c) == c \in {"!", "+", ",", "-", "_"}

IsUpper(c) == c \in {"A", "B"}

\* the line lowercased, every non-word, non-space character made a blank
Normalized(line) == SubPunct(Lower(line))

\* where the whitespace-separated tokens of a line start
TokenStarts(line) ==
    {i \in 1..Len(line) : ~IsSpace(line[i]) /\ (i = 1 \/ IsSpace(line[i - 1]))}

\* lines that differ from line only in letter case or in which punctuation
\* mark stands at a place
SameButCaseAndPunct(line) ==
    {u \in MapTexts :
        /\ Len(u) = Len(line)
        /\ \A i \in 1..Len(line) :
              \/ LowerChar(u[i]) = LowerChar(line[i])
              \/ IsPunct(u[i]) /\ IsPunct(line[i])}

\* how many times pair p occurs in pairs
PairCount(pairs, p) == Cardinality({i \in 1..Len(pairs) : pairs[i] = p})

SameMultiset(ps, qs) ==
    /\ Len(ps) = Len(qs)
    /\ \A i \in 1..Len(ps) : PairCount(ps, ps[i]) = PairCount(qs, ps[i])

\* C12: for every line the mapper emits one (token, 1) pair per
\* whitespace-separated token of the normalised line; no token is empty or
\* holds an uppercase letter or a punctuation mark, and lines that differ
\* only in letter case or punctuation give the same multiset of pairs.
C12_MapperTokens ==
    mrStage = "mapped" =>
        LET pairs == OutRecords(mrMapOut)
        IN  /\ Len(pairs) = Cardinality(TokenStarts(Normalized(mrText)))
            /\ \A i \in 1..Len(pairs) :
                  /\ pairs[i][2] = 1
                  /\ pairs[i][1] # <<>>
                  /\ \A k \in 1..Len(pairs[i][1]) :
                        ~IsUpper(pairs[i][1][k]) /\ ~IsPunct(pairs[i][1][k])
            /\ \A u \in SameButCaseAndPunct(mrText) :
                  SameMultiset(OutRecords(MapperScript(u)), pairs)

(***************************************************************************)
(* The status endpoint (SpecStatus).                                       *)
(***************************************************************************)
\* the probe command ran to its end, with exit status 0, in time
ProbeHealthy ==
    stProc.outcome = "exit" /\ stProc.returncode = 0 /\ stElapsed < ProbeTimeout

\* the response shows the text err, as its stderr entry or within its message
Carries(r, err) ==
    \/ r.stderr = err
    \/ \E i \in 1..Len(r.message) : r.message[i] = err

\* C13: GET /api/status answers with the healthy payload exactly when the
\* probe command exits with status 0 within its time bound; when it exits
\* non-zero, cannot be started or times out the answer is HTTP 500 with
\* status "error", and after a non-zero exit the error detail carries what
\* the probe wrote to stderr.
C13_StatusReportsProbe ==
    stStage = "done" =>
        /\ stResp = Healthy <=> ProbeHealthy
        /\ ~ProbeHealthy => stResp.status = 500 /\ stResp.body_status = "error"
        /\ stProc.outcome = "TimeoutExpired" <=> stElapsed = ProbeTimeout
        /\ stProc.outcome = "exit" /\ stProc.returncode # 0 /\ stProc.stderr # "" =>
              Carries(stResp, stProc.stderr)

=============================================================================
